---- MODULE Spec2Model ----
(* A model of the header-based datasheet chunker (src/simple_main.py):      *)
(* header detection, chunking between headers, categorisation, filename     *)
(* derivation, the directory structure and the writer.                      *)
(* Text is a sequence of one-character strings.                             *)
EXTENDS Integers, Sequences, FiniteSets, TLC

VARIABLES
  pc,         \* the step the pipeline is at
  text,       \* the text given to the chunker
  headers,    \* the header list given to the chunker
  chunks,     \* the chunks the chunker returned
  structure,  \* the directory structure: <<[category, files]>> in insertion order
  storage,    \* the files on disk under the base directory: path -> content
  created,    \* the paths written so far, in order (the "Created:" lines)
  wc, wf,     \* the writer's position: category and file within it
  pdf,        \* the document: what extract_text() gives for each page
  max_pages,  \* the page limit given to process_pdf
  pages_to_process,
  page_num,   \* the number of pages the page loop has gone through
  all_text,
  all_headers,
  unique_headers,
  result,     \* the summary process_pdf returned
  exists,     \* os.path.exists(pdf_file_path)
  raised,     \* the step an exception was raised at, "none" if none was
  runs,       \* how many times the document was processed again
  first_run   \* the storage the first run left, once there is a rerun

writer == <<storage, created, wc, wf>>

document ==
  <<pdf, max_pages, pages_to_process, page_num, all_text, all_headers,
    unique_headers, result>>

host == <<exists, raised, runs, first_run>>

vars ==
  <<pc, text, headers, chunks, structure, storage, created, wc, wf, pdf,
    max_pages, pages_to_process, page_num, all_text, all_headers,
    unique_headers, result, exists, raised, runs, first_run>>

(* ------------------------------------------------------------------ *)
(* Characters and the string primitives of the Python runtime          *)
(* ------------------------------------------------------------------ *)

NL == "\n"

UpperLetters == <<"A", "B", "C", "D", "E", "F", "G", "H", "I", "J", "K", "L", "M", "N", "O", "P", "Q", "R", "S", "T", "U", "V", "W", "X", "Y", "Z">>

LowerLetters == <<"a", "b", "c", "d", "e", "f", "g", "h", "i", "j", "k", "l", "m", "n", "o", "p", "q", "r", "s", "t", "u", "v", "w", "x", "y", "z">>

Range(s) == {s[i] : i \in DOMAIN s}

IsUpperChar(c) == c \in Range(UpperLetters)

IsLowerChar(c) == c \in Range(LowerLetters)

IsDigitChar(c) == c \in {"0", "1", "2", "3", "4", "5", "6", "7", "8", "9"}

IsSpaceChar(c) == c \in {" ", "\t", "\n", "\r"}

LowerChar(c) ==
  IF IsUpperChar(c)
    THEN LowerLetters[CHOOSE i \in DOMAIN UpperLetters : UpperLetters[i] = c]
    ELSE c

UpperChar(c) ==
  IF IsLowerChar(c)
    THEN UpperLetters[CHOOSE i \in DOMAIN LowerLetters : LowerLetters[i] = c]
    ELSE c

IsCasedChar(c) == IsUpperChar(c) \/ IsLowerChar(c)

\* str.lower()
Lower(s) == [i \in DOMAIN s |-> LowerChar(s[i])]

\* the text from position i (1-based) to the end
From(s, i) == SubSeq(s, i, Len(s))

RECURSIVE LStrip(_)
LStrip(s) ==
  IF s # <<>> /\ IsSpaceChar(Head(s)) THEN LStrip(Tail(s)) ELSE s

RECURSIVE RStrip(_)
RStrip(s) ==
  IF s # <<>> /\ IsSpaceChar(s[Len(s)])
    THEN RStrip(SubSeq(s, 1, Len(s) - 1))
    ELSE s

\* str.strip()
Strip(s) == RStrip(LStrip(s))

\* needle in haystack (substring test)
Contains(hay, needle) ==
  \E i \in 1..(Len(hay) - Len(needle) + 1) :
    SubSeq(hay, i, i + Len(needle) - 1) = needle

RECURSIVE Flatten(_)
Flatten(ss) == IF ss = <<>> THEN <<>> ELSE Head(ss) \o Flatten(Tail(ss))

\* str.split('\n'): always at least one line
RECURSIVE SplitLines(_)
SplitLines(s) ==
  IF \A i \in DOMAIN s : s[i] # NL
    THEN <<s>>
    ELSE LET i == CHOOSE k \in DOMAIN s :
                    s[k] = NL /\ \A j \in 1..(k - 1) : s[j] # NL
         IN <<SubSeq(s, 1, i - 1)>> \o SplitLines(From(s, i + 1))

(* ------------------------------------------------------------------ *)
(* extract_content_between_headers                                      *)
(* ------------------------------------------------------------------ *)

S_Introduction == <<"I", "n", "t", "r", "o", "d", "u", "c", "t", "i", "o", "n">>

S_Main_Content == <<"M", "a", "i", "n", " ", "C", "o", "n", "t", "e", "n", "t">>

Chunk(h, c) == [header |-> h, content |-> c]

\* mutant: the raw line, not the stripped one, is looked up in the headers
IsHeaderLineRaw(line, hs) == \E i \in DOMAIN hs : hs[i] = line

\* line_stripped in headers
IsHeaderLine(line, hs) == \E i \in DOMAIN hs : hs[i] = Strip(line)

\* if current_chunk["content"].strip(): chunks.append(current_chunk)
SaveChunk(cs, current_chunk) ==
  IF Strip(current_chunk.content) # <<>>
    THEN Append(cs, current_chunk)
    ELSE cs

\* mutant: the line is added without its terminator
AddLineNoTerminator(current_chunk, line) ==
  [header |-> current_chunk.header, content |-> current_chunk.content \o line]

\* current_chunk["content"] += line + '\n'
AddLine(current_chunk, line) ==
  Chunk(current_chunk.header, current_chunk.content \o line \o <<NL>>)

\* the for loop over the lines, from line i on
RECURSIVE ScanLines(_, _, _, _, _)
ScanLines(lines, i, hs, current_chunk, cs) ==
  IF i > Len(lines)
    THEN SaveChunk(cs, current_chunk)
    ELSE IF IsHeaderLine(lines[i], hs)
      THEN ScanLines(lines, i + 1, hs, Chunk(Strip(lines[i]), <<>>),
                     SaveChunk(cs, current_chunk))
      ELSE ScanLines(lines, i + 1, hs, AddLine(current_chunk, lines[i]), cs)

\* mutant: no early return for an empty header list
ExtractAlwaysScan(t, hs) ==
  ScanLines(SplitLines(t), 1, hs, Chunk(S_Introduction, <<>>), <<>>)

\* extract_content_between_headers(text, headers)
ExtractContentBetweenHeaders(t, hs) ==
  IF hs = <<>>
    THEN <<Chunk(S_Main_Content, t)>>
    ELSE ScanLines(SplitLines(t), 1, hs, Chunk(S_Introduction, <<>>), <<>>)

(* ------------------------------------------------------------------ *)
(* clean_filename                                                       *)
(* ------------------------------------------------------------------ *)

S_section == <<"s", "e", "c", "t", "i", "o", "n">>

S_dot_md == <<".", "m", "d">>

MaxFilenameLen == 50

\* first position >= i of s that holds no digit
RECURSIVE SkipDigits(_, _)
SkipDigits(s, i) ==
  IF i <= Len(s) /\ IsDigitChar(s[i]) THEN SkipDigits(s, i + 1) ELSE i

\* first position >= i of s that holds no whitespace
RECURSIVE SkipSpaces(_, _)
SkipSpaces(s, i) ==
  IF i <= Len(s) /\ IsSpaceChar(s[i]) THEN SkipSpaces(s, i + 1) ELSE i

\* (\.\d+)* from position i: the position after the last group
RECURSIVE SkipGroups(_, _)
SkipGroups(s, i) ==
  IF i + 1 <= Len(s) /\ s[i] = "." /\ IsDigitChar(s[i + 1])
    THEN SkipGroups(s, SkipDigits(s, i + 1))
    ELSE i

\* \.? from position i
SkipDot(s, i) == IF i <= Len(s) /\ s[i] = "." THEN i + 1 ELSE i

\* mutant: the number is removed only before whitespace and an uppercase letter
RemoveNumberedSectionOnly(s) ==
  LET i == SkipDot(s, SkipGroups(s, SkipDigits(s, 1)))
      j == SkipSpaces(s, i)
  IN IF s # <<>> /\ IsDigitChar(s[1]) /\ j > i /\ j <= Len(s) /\ IsUpperChar(s[j])
       THEN From(s, j)
       ELSE s

\* re.sub(r'^\d+(\.\d+)*\.?\s*', '', text)
RemoveSectionNumber(s) ==
  IF s # <<>> /\ IsDigitChar(s[1])
    THEN From(s, SkipSpaces(s, SkipDot(s, SkipGroups(s, SkipDigits(s, 1)))))
    ELSE s

\* re.sub(r'[^a-zA-Z0-9\s]', '', text)
KeepChar(c) ==
  IsUpperChar(c) \/ IsLowerChar(c) \/ IsDigitChar(c) \/ IsSpaceChar(c)

RemoveSpecial(s) == SelectSeq(s, KeepChar)

\* re.sub(r'\s+', '_', s) on a stripped text
RECURSIVE SpacesToUnderscore(_)
SpacesToUnderscore(s) ==
  IF s = <<>> THEN <<>>
  ELSE IF IsSpaceChar(Head(s))
    THEN <<"_">> \o SpacesToUnderscore(From(s, SkipSpaces(s, 1)))
    ELSE <<Head(s)>> \o SpacesToUnderscore(Tail(s))

\* mutant: the slice keeps one character too many
TruncateOneMore(s) ==
  IF Len(s) > MaxFilenameLen THEN SubSeq(s, 1, MaxFilenameLen + 1) ELSE s

\* if len(text) > 50: text = text[:50]
Truncate(s) ==
  IF Len(s) > MaxFilenameLen THEN SubSeq(s, 1, MaxFilenameLen) ELSE s

\* return text or "section"
OrSection(s) == IF s = <<>> THEN S_section ELSE s

CleanFilename(s) ==
  OrSection(Truncate(Lower(SpacesToUnderscore(Strip(
    RemoveSpecial(RemoveSectionNumber(s)))))))

(* ------------------------------------------------------------------ *)
(* create_directory_structure                                           *)
(* ------------------------------------------------------------------ *)

S_register == <<"r", "e", "g", "i", "s", "t", "e", "r">>

S_configuration == <<"c", "o", "n", "f", "i", "g", "u", "r", "a", "t", "i", "o", "n">>

S_control == <<"c", "o", "n", "t", "r", "o", "l">>

S_timing == <<"t", "i", "m", "i", "n", "g">>

S_electrical == <<"e", "l", "e", "c", "t", "r", "i", "c", "a", "l">>

S_specification == <<"s", "p", "e", "c", "i", "f", "i", "c", "a", "t", "i", "o", "n">>

S_feature == <<"f", "e", "a", "t", "u", "r", "e">>

S_overview == <<"o", "v", "e", "r", "v", "i", "e", "w">>

S_description == <<"d", "e", "s", "c", "r", "i", "p", "t", "i", "o", "n">>

S_operation == <<"o", "p", "e", "r", "a", "t", "i", "o", "n">>

S_mode == <<"m", "o", "d", "e">>

S_function == <<"f", "u", "n", "c", "t", "i", "o", "n">>

S_package == <<"p", "a", "c", "k", "a", "g", "e">>

S_mechanical == <<"m", "e", "c", "h", "a", "n", "i", "c", "a", "l">>

S_pin == <<"p", "i", "n">>

\* any(keyword in header.lower() for keyword in kws)
AnyKeyword(header, kws) == \E k \in kws : Contains(Lower(header), k)

\* mutant: the mechanical keywords are tested first
CategorizeMechanicalFirst(header) ==
  IF AnyKeyword(header, {S_package, S_mechanical, S_pin})
    THEN "mechanical"
  ELSE IF AnyKeyword(header, {S_register, S_configuration, S_control})
    THEN "registers"
  ELSE IF AnyKeyword(header, {S_timing, S_electrical, S_specification})
    THEN "specifications"
  ELSE IF AnyKeyword(header, {S_feature, S_overview, S_description})
    THEN "overview"
  ELSE IF AnyKeyword(header, {S_operation, S_mode, S_function})
    THEN "operation"
  ELSE "general"

\* the if/elif chain that picks the directory of a header
Categorize(header) ==
  IF AnyKeyword(header, {S_register, S_configuration, S_control})
    THEN "registers"
  ELSE IF AnyKeyword(header, {S_timing, S_electrical, S_specification})
    THEN "specifications"
  ELSE IF AnyKeyword(header, {S_feature, S_overview, S_description})
    THEN "overview"
  ELSE IF AnyKeyword(header, {S_operation, S_mode, S_function})
    THEN "operation"
  ELSE IF AnyKeyword(header, {S_package, S_mechanical, S_pin})
    THEN "mechanical"
  ELSE "general"

\* the File record of a chunk
FileRecord(chunk) ==
  [filename |-> CleanFilename(chunk.header) \o S_dot_md,
   header |-> chunk.header,
   content |-> Strip(chunk.content)]

\* mutant: a new category is put before the others
AddFileNewCategoryFirst(st, category, rec) ==
  IF \E i \in DOMAIN st : st[i].category = category
    THEN [i \in DOMAIN st |->
            IF st[i].category = category
              THEN [st[i] EXCEPT !.files = Append(@, rec)]
              ELSE st[i]]
    ELSE <<[category |-> category, files |-> <<rec>>]>> \o st

\* structure[category].append(record), the category created on first use;
\* a dict keeps its keys in insertion order
AddFile(st, category, rec) ==
  IF \E i \in DOMAIN st : st[i].category = category
    THEN [i \in DOMAIN st |->
            IF st[i].category = category
              THEN [st[i] EXCEPT !.files = Append(@, rec)]
              ELSE st[i]]
    ELSE Append(st, [category |-> category, files |-> <<rec>>])

\* the for loop over the chunks, from chunk i on
RECURSIVE BuildFrom(_, _, _)
BuildFrom(cs, i, st) ==
  IF i > Len(cs)
    THEN st
    ELSE BuildFrom(cs, i + 1,
                   AddFile(st, Categorize(cs[i].header), FileRecord(cs[i])))

CreateDirectoryStructure(cs) == BuildFrom(cs, 1, <<>>)

(* ------------------------------------------------------------------ *)
(* detect_headers                                                       *)
(* ------------------------------------------------------------------ *)

S_introduction == <<"i", "n", "t", "r", "o", "d", "u", "c", "t", "i", "o", "n">>

S_features == <<"f", "e", "a", "t", "u", "r", "e", "s">>

S_registers == <<"r", "e", "g", "i", "s", "t", "e", "r", "s">>

HeaderKeywords ==
  {S_introduction, S_overview, S_specification, S_features, S_description,
   S_operation, S_configuration, S_registers, S_timing, S_electrical,
   S_mechanical, S_package}

HeaderMaxLen == 80

TitleMaxLen == 60

\* str.isupper(): a cased character, and no lowercase one
IsUpper(s) ==
  /\ \E i \in DOMAIN s : IsCasedChar(s[i])
  /\ \A i \in DOMAIN s : ~IsLowerChar(s[i])

\* str.istitle(), scanning from position i; prev: the character before was
\* cased; cased: a cased character was seen
RECURSIVE IsTitleFrom(_, _, _, _)
IsTitleFrom(s, i, prev, cased) ==
  IF i > Len(s) THEN cased
  ELSE IF IsUpperChar(s[i])
    THEN IF prev THEN FALSE ELSE IsTitleFrom(s, i + 1, TRUE, TRUE)
  ELSE IF IsLowerChar(s[i])
    THEN IF ~prev THEN FALSE ELSE IsTitleFrom(s, i + 1, TRUE, TRUE)
  ELSE IsTitleFrom(s, i + 1, FALSE, cased)

IsTitle(s) == IsTitleFrom(s, 1, FALSE, FALSE)

\* len(line.split()): the number of runs of non-whitespace characters
WordCount(s) ==
  Cardinality({i \in DOMAIN s :
                 ~IsSpaceChar(s[i]) /\ (i = 1 \/ IsSpaceChar(s[i - 1]))})

\* line.endswith('.')
EndsWithDot(s) == s # <<>> /\ s[Len(s)] = "."

\* re.match(r'^\d+(\.\d+)*\.?\s+[A-Z]', line)
IsNumbered(line) ==
  LET i == SkipDot(line, SkipGroups(line, SkipDigits(line, 1)))
      j == SkipSpaces(line, i)
  IN /\ line # <<>>
     /\ IsDigitChar(line[1])
     /\ j > i
     /\ j <= Len(line)
     /\ IsUpperChar(line[j])

\* len(line) < 80 and line.isupper() and len(line.split()) > 1
IsAllCaps(line) ==
  Len(line) < HeaderMaxLen /\ IsUpper(line) /\ WordCount(line) > 1

\* mutant: a title-case line may end with a period
IsTitleCaseAnyEnd(line) ==
  Len(line) < TitleMaxLen /\ IsTitle(line) /\ WordCount(line) > 1

\* len(line) < 60 and line.istitle() and not line.endswith('.') and
\* len(line.split()) > 1
IsTitleCase(line) ==
  /\ Len(line) < TitleMaxLen
  /\ IsTitle(line)
  /\ ~EndsWithDot(line)
  /\ WordCount(line) > 1

\* any(keyword in line.lower() for keyword in [...]) and len(line) < 80
HasKeyword(line) ==
  /\ \E k \in HeaderKeywords : Contains(Lower(line), k)
  /\ Len(line) < HeaderMaxLen

\* the if/elif chain that sets is_header
IsHeader(line) ==
  IF IsNumbered(line) THEN TRUE
  ELSE IF IsAllCaps(line) THEN TRUE
  ELSE IF IsTitleCase(line) THEN TRUE
  ELSE IF HasKeyword(line) THEN TRUE
  ELSE FALSE

\* the for loop over the lines, from line i on
RECURSIVE DetectFrom(_, _, _)
DetectFrom(lines, i, hs) ==
  IF i > Len(lines) THEN hs
  ELSE LET line == Strip(lines[i])
       IN IF line = <<>>
            THEN DetectFrom(lines, i + 1, hs)
            ELSE DetectFrom(lines, i + 1,
                            IF IsHeader(line) THEN Append(hs, line) ELSE hs)

\* detect_headers(text)
DetectHeaders(t) == DetectFrom(SplitLines(t), 1, <<>>)

(* ------------------------------------------------------------------ *)
(* write_markdown_files and create_index_file                           *)
(* ------------------------------------------------------------------ *)

S_README_md == <<"R", "E", "A", "D", "M", "E", ".", "m", "d">>

S_IndexTitle == <<"#", " ", "D", "a", "t", "a", "s", "h", "e", "e", "t", " ", "S", "t", "r", "u", "c", "t", "u", "r", "e", "\n", "\n">>

S_IndexNote == <<"T", "h", "i", "s", " ", "d", "o", "c", "u", "m", "e", "n", "t", " ", "w", "a", "s", " ", "a", "u", "t", "o", "m", "a", "t", "i", "c", "a", "l", "l", "y", " ", "g", "e", "n", "e", "r", "a", "t", "e", "d", " ", "f", "r", "o", "m", " ", "a", " ", "P", "D", "F", " ", "d", "a", "t", "a", "s", "h", "e", "e", "t", ".", "\n", "\n">>

\* the characters of a category name
CategoryText(c) ==
  CASE c = "registers" -> <<"r", "e", "g", "i", "s", "t", "e", "r", "s">>
    [] c = "specifications" -> <<"s", "p", "e", "c", "i", "f", "i", "c", "a", "t", "i", "o", "n", "s">>
    [] c = "overview" -> <<"o", "v", "e", "r", "v", "i", "e", "w">>
    [] c = "operation" -> <<"o", "p", "e", "r", "a", "t", "i", "o", "n">>
    [] c = "mechanical" -> <<"m", "e", "c", "h", "a", "n", "i", "c", "a", "l">>
    [] c = "general" -> <<"g", "e", "n", "e", "r", "a", "l">>

\* str.title()
Title(s) ==
  [i \in DOMAIN s |->
     IF i > 1 /\ IsCasedChar(s[i - 1]) THEN LowerChar(s[i]) ELSE UpperChar(s[i])]

\* category_dir / file_info["filename"], relative to the base directory
FilePath(category, filename) == [dir |-> category, name |-> filename]

\* base_dir / "README.md"
IndexPath == [dir |-> ".", name |-> S_README_md]

\* f"# {file_info['header']}\n\n{file_info['content']}"
MarkdownContent(f) == <<"#", " ">> \o f.header \o <<NL, NL>> \o f.content

\* f"- [{file_info['header']}]({file_path})\n"
IndexLine(category, f) ==
  <<"-", " ", "[">> \o f.header \o <<"]", "(">> \o CategoryText(category)
    \o <<"/">> \o f.filename \o <<")", NL>>

\* the section of one category in the index
IndexSection(cat) ==
  <<"#", "#", " ">> \o Title(CategoryText(cat.category)) \o <<NL, NL>>
    \o Flatten([j \in DOMAIN cat.files |-> IndexLine(cat.category, cat.files[j])])
    \o <<NL>>

IndexContent(st) ==
  S_IndexTitle \o S_IndexNote \o Flatten([i \in DOMAIN st |-> IndexSection(st[i])])

\* mutant: the file is opened for appending
WriteToAppending(st, path, content) ==
  [q \in DOMAIN st \cup {path} |->
     IF q = path
       THEN (IF path \in DOMAIN st THEN st[path] ELSE <<>>) \o content
       ELSE st[q]]

\* open(path, 'w') and f.write(content): the file is created or replaced
WriteTo(st, path, content) ==
  [q \in DOMAIN st \cup {path} |-> IF q = path THEN content ELSE st[q]]

\* one pass of the inner loop: the file at the writer's position is written
WriteFile ==
  /\ pc = "write"
  /\ wc <= Len(structure)
  /\ LET cat == structure[wc]
         f == cat.files[wf]
         path == FilePath(cat.category, f.filename)
     IN /\ storage' = WriteTo(storage, path, MarkdownContent(f))
        /\ created' = Append(created, path)
        /\ IF wf < Len(cat.files)
             THEN wc' = wc /\ wf' = wf + 1
             ELSE wc' = wc + 1 /\ wf' = 1
  /\ UNCHANGED host
  /\ UNCHANGED <<pc, text, headers, chunks, structure, document>>

\* after the loops: the index file is written
WriteIndex ==
  /\ pc = "write"
  /\ wc > Len(structure)
  /\ storage' = WriteTo(storage, IndexPath, IndexContent(structure))
  /\ created' = Append(created, IndexPath)
  /\ pc' = "done"
  /\ UNCHANGED host
  /\ UNCHANGED <<text, headers, chunks, structure, wc, wf, document>>

(* ------------------------------------------------------------------ *)
(* process_pdf                                                          *)
(* ------------------------------------------------------------------ *)

\* the writer before its first file
NothingWritten ==
  /\ storage = <<>>
  /\ created = <<>>
  /\ wc = 1
  /\ wf = 1

None == [none |-> TRUE, n |-> 0]

Limit(n) == [none |-> FALSE, n |-> n]

\* page.extract_text(): a text, or nothing
NoText == [none |-> TRUE, text |-> <<>>]

PageText(t) == [none |-> FALSE, text |-> t]

\* no document is being processed
NoDocument ==
  /\ pdf = <<>>
  /\ max_pages = None
  /\ pages_to_process = 0
  /\ page_num = 0
  /\ all_text = <<>>
  /\ all_headers = <<>>
  /\ unique_headers = <<>>
  /\ result = None

\* the operation is called once, on a document that exists
FirstCall ==
  /\ exists = TRUE
  /\ raised = "none"
  /\ runs = 0
  /\ first_run = <<>>

DecimalDigits == <<"0", "1", "2", "3", "4", "5", "6", "7", "8", "9">>

\* str(n) of a natural number
RECURSIVE Decimal(_)
Decimal(n) ==
  IF n < 10 THEN <<DecimalDigits[n + 1]>>
  ELSE Decimal(n \div 10) \o <<DecimalDigits[(n % 10) + 1]>>

\* f"\n--- PAGE {page_num + 1} ---\n"
PageMarker(n) ==
  <<NL, "-", "-", "-", " ", "P", "A", "G", "E", " ">> \o Decimal(n)
    \o <<" ", "-", "-", "-", NL>>

\* min(max_pages, total_pages), or every page for None and -1
PagesToProcess(limit, total_pages) ==
  IF limit.none \/ limit.n = -1 THEN total_pages
  ELSE IF limit.n < total_pages THEN limit.n ELSE total_pages

\* len(pdf.pages[:n]): a negative n counts from the end
SliceLen(total_pages, n) ==
  IF n >= 0 THEN (IF n < total_pages THEN n ELSE total_pages)
  ELSE (IF total_pages + n > 0 THEN total_pages + n ELSE 0)

\* mutant: seen.add(header) is missing
DedupeNothingSeen(hs, i, unique, seen) ==
  IF i > Len(hs) THEN unique ELSE hs

\* the loop that removes duplicates, from header i on
RECURSIVE Dedupe(_, _, _, _)
Dedupe(hs, i, unique, seen) ==
  IF i > Len(hs) THEN unique
  ELSE IF hs[i] \notin seen
    THEN Dedupe(hs, i + 1, Append(unique, hs[i]), seen \cup {hs[i]})
    ELSE Dedupe(hs, i + 1, unique, seen)

\* with pdfplumber.open(pdf_path) as pdf: the page count and the limit
Open ==
  /\ pc = "open"
  /\ pages_to_process' = PagesToProcess(max_pages, Len(pdf))
  /\ page_num' = 0
  /\ pc' = "pages"
  /\ UNCHANGED host
  /\ UNCHANGED <<text, headers, chunks, structure, writer, pdf, max_pages,
                 all_text, all_headers, unique_headers, result>>

\* one pass of the page loop
Page ==
  /\ pc = "pages"
  /\ page_num < SliceLen(Len(pdf), pages_to_process)
  /\ LET page == pdf[page_num + 1]
     IN IF ~page.none /\ page.text # <<>>
          THEN /\ all_text' = all_text \o PageMarker(page_num + 1) \o page.text
               /\ all_headers' = all_headers \o DetectHeaders(page.text)
          ELSE UNCHANGED <<all_text, all_headers>>
  /\ page_num' = page_num + 1
  /\ UNCHANGED host
  /\ UNCHANGED <<pc, text, headers, chunks, structure, writer, pdf, max_pages,
                 pages_to_process, unique_headers, result>>

\* after the page loop: duplicates removed, first occurrences kept
Unique ==
  /\ pc = "pages"
  /\ page_num >= SliceLen(Len(pdf), pages_to_process)
  /\ unique_headers' = Dedupe(all_headers, 1, <<>>, {})
  /\ pc' = "chunk"
  /\ UNCHANGED host
  /\ UNCHANGED <<text, headers, chunks, structure, writer, pdf, max_pages,
                 pages_to_process, page_num, all_text, all_headers, result>>

\* chunks = self.extract_content_between_headers(all_text, unique_headers)
ExtractChunks ==
  /\ pc = "chunk"
  /\ text' = all_text
  /\ headers' = unique_headers
  /\ chunks' = ExtractContentBetweenHeaders(all_text, unique_headers)
  /\ pc' = "structure"
  /\ UNCHANGED host
  /\ UNCHANGED <<structure, writer, document>>

\* the summary returned once the files are written
Return ==
  /\ pc = "done"
  /\ result' = [none |-> FALSE,
                total_pages |-> Len(pdf),
                pages_processed |-> pages_to_process,
                headers_found |-> Len(unique_headers),
                content_chunks |-> Len(chunks),
                structure |-> structure]
  /\ pc' = "returned"
  /\ UNCHANGED host
  /\ UNCHANGED <<text, headers, chunks, structure, writer, pdf, max_pages,
                 pages_to_process, page_num, all_text, all_headers,
                 unique_headers>>

(* ------------------------------------------------------------------ *)
(* process_pdf_with_chunker                                             *)
(* ------------------------------------------------------------------ *)

\* the dict {} returned for a missing document and after an exception
EmptyResult == [none |-> FALSE, keys |-> {}]

\* the steps of process_pdf
Steps == {"open", "pages", "chunk", "structure", "write", "done"}

\* mutant: only pdfplumber.open is inside the try
InTryOpenOnly(step) == step = "open"

\* the steps that run inside the try: all of process_pdf
InTry(step) == step \in Steps

\* if not os.path.exists(pdf_file_path): return {}; else the processor
Check ==
  /\ pc = "entry"
  /\ IF exists
       THEN pc' = "open" /\ UNCHANGED result
       ELSE pc' = "returned" /\ result' = EmptyResult
  /\ UNCHANGED <<text, headers, chunks, structure, writer, pdf, max_pages,
                 pages_to_process, page_num, all_text, all_headers,
                 unique_headers, host>>

\* the step process_pdf is at raises an exception instead of completing
Raise ==
  /\ pc \in Steps
  /\ raised = "none"
  /\ raised' = pc
  /\ pc' = "raised"
  /\ UNCHANGED <<text, headers, chunks, structure, writer, document, exists,
                 runs, first_run>>

\* except Exception: return {}, for what was raised inside the try
Except ==
  /\ pc = "raised"
  /\ IF InTry(raised)
       THEN pc' = "returned" /\ result' = EmptyResult
       ELSE pc' = "propagated" /\ UNCHANGED result
  /\ UNCHANGED <<text, headers, chunks, structure, writer, pdf, max_pages,
                 pages_to_process, page_num, all_text, all_headers,
                 unique_headers, host>>

MaxRuns == 2

\* the document is processed again: same document, directory and limit
Rerun ==
  /\ pc = "returned"
  /\ runs < MaxRuns
  /\ runs' = runs + 1
  /\ first_run' = IF runs = 0 THEN storage ELSE first_run
  /\ pc' = "open"
  /\ text' = <<>>
  /\ headers' = <<>>
  /\ chunks' = <<>>
  /\ structure' = <<>>
  /\ created' = <<>>
  /\ wc' = 1
  /\ wf' = 1
  /\ pages_to_process' = 0
  /\ page_num' = 0
  /\ all_text' = <<>>
  /\ all_headers' = <<>>
  /\ unique_headers' = <<>>
  /\ result' = None
  /\ UNCHANGED <<storage, pdf, max_pages, exists, raised>>

(* ------------------------------------------------------------------ *)
(* The chunker called on any text and any header list                   *)
(* ------------------------------------------------------------------ *)

MaxTextLen == 5

MaxHeaders == 2

TextAlphabet == {"a", "H", " ", NL}

\* all sequences over S of length at most n
SeqsUpTo(S, n) == UNION {[1..k -> S] : k \in 0..n}

HeaderPool == {<<"H">>, <<"a">>, <<"H", " ", "a">>}

\* header lists without repetition
HeaderLists ==
  {hs \in SeqsUpTo(HeaderPool, MaxHeaders) :
     \A i, j \in DOMAIN hs : i # j => hs[i] # hs[j]}

InitChunk ==
  /\ pc = "extract"
  /\ text \in SeqsUpTo(TextAlphabet, MaxTextLen)
  /\ headers \in HeaderLists
  /\ chunks = <<>>
  /\ structure = <<>>
  /\ NothingWritten
  /\ NoDocument
  /\ FirstCall

Extract ==
  /\ pc = "extract"
  /\ chunks' = ExtractContentBetweenHeaders(text, headers)
  /\ pc' = "structure"
  /\ UNCHANGED host
  /\ UNCHANGED <<text, headers, structure, writer, document>>

Build ==
  /\ pc = "structure"
  /\ structure' = CreateDirectoryStructure(chunks)
  /\ pc' = "write"
  /\ UNCHANGED host
  /\ UNCHANGED <<text, headers, chunks, writer, document>>

NextChunk == Extract \/ Build

SpecChunk == InitChunk /\ [][NextChunk]_vars

(* ------------------------------------------------------------------ *)
(* The chunker called with header lists that may hold "Introduction"    *)
(* ------------------------------------------------------------------ *)

SentinelHeaderPool == {<<"H">>, <<"a">>, S_Introduction}

\* header lists without repetition
SentinelHeaderLists ==
  {hs \in SeqsUpTo(SentinelHeaderPool, MaxHeaders) :
     \A i, j \in DOMAIN hs : i # j => hs[i] # hs[j]}

InitRechunk ==
  /\ pc = "extract"
  /\ text \in SeqsUpTo(TextAlphabet, MaxTextLen)
  /\ headers \in SentinelHeaderLists
  /\ chunks = <<>>
  /\ structure = <<>>
  /\ NothingWritten
  /\ NoDocument
  /\ FirstCall

NextRechunk == Extract

SpecRechunk == InitRechunk /\ [][NextRechunk]_vars

(* ------------------------------------------------------------------ *)
(* The tree builder and the writer called on any list of chunks         *)
(* ------------------------------------------------------------------ *)

MaxPrefixLen == 4

MaxWords == 2

MaxChunks == 3

PrefixAlphabet == {"1", ".", " "}

LongWord(n) == [i \in 1..n |-> "X"]

\* what follows the numbering of a header
NameBodies ==
  {<<>>, <<"A", "b">>, <<"v">>, <<"b", " ", "\t", "C", "-">>,
   <<"2", "_", "x">>, LongWord(MaxFilenameLen), LongWord(MaxFilenameLen + 1)}

\* headers that exercise the filename: a numbering-like prefix and a body
NameHeaders ==
  {p \o b : p \in SeqsUpTo(PrefixAlphabet, MaxPrefixLen), b \in NameBodies}

CategoryWords ==
  {<<"R", "e", "g", "i", "s", "t", "e", "r">>,
   <<"C", "O", "N", "F", "I", "G", "U", "R", "A", "T", "I", "O", "N">>,
   <<"c", "o", "n", "t", "r", "o", "l">>,
   <<"T", "i", "m", "i", "n", "g">>,
   <<"E", "l", "e", "c", "t", "r", "i", "c", "a", "l">>,
   <<"S", "p", "e", "c", "i", "f", "i", "c", "a", "t", "i", "o", "n">>,
   <<"F", "e", "a", "t", "u", "r", "e">>,
   <<"O", "v", "e", "r", "v", "i", "e", "w">>,
   <<"D", "e", "s", "c", "r", "i", "p", "t", "i", "o", "n">>,
   <<"O", "P", "E", "R", "A", "T", "I", "O", "N">>,
   <<"m", "o", "d", "e">>,
   <<"F", "u", "n", "c", "t", "i", "o", "n">>,
   <<"P", "a", "c", "k", "a", "g", "e">>,
   <<"M", "E", "C", "H", "A", "N", "I", "C", "A", "L">>,
   <<"p", "i", "n">>, <<"S">>, <<" ">>}

\* headers that exercise the categories: up to MaxWords words, unseparated
CategoryHeaders ==
  {Flatten(ws) : ws \in SeqsUpTo(CategoryWords, MaxWords)}

TreeHeaders ==
  {<<"P", "i", "n", " ", "M", "o", "d", "e">>,
   <<"P", "I", "N", " ", "M", "O", "D", "E">>,
   <<"T", "i", "m", "i", "n", "g">>,
   <<"X", " ", "Y">>}

TreeContents == {<<"c">>, <<" ", "d", NL>>}

TreeChunks == {Chunk(h, c) : h \in TreeHeaders, c \in TreeContents}

ChunkLists ==
  {<<Chunk(h, <<"c", NL>>)>> : h \in NameHeaders \cup CategoryHeaders}
    \cup SeqsUpTo(TreeChunks, MaxChunks)

InitTree ==
  /\ pc = "structure"
  /\ text = <<>>
  /\ headers = <<>>
  /\ chunks \in ChunkLists
  /\ structure = <<>>
  /\ NothingWritten
  /\ NoDocument
  /\ FirstCall

NextTree == Build \/ WriteFile \/ WriteIndex

SpecTree == InitTree /\ [][NextTree]_vars

(* ------------------------------------------------------------------ *)
(* The header detector called on any page text                          *)
(* ------------------------------------------------------------------ *)

MaxLineLen == 4

MaxLines == 2

LineAlphabet == {"1", ".", " ", "A", "b"}

\* a line of n characters: two words in capitals
CapsLine(n) == <<"A", " ">> \o [i \in 1..(n - 2) |-> "B"]

\* a line of n characters: two words in title case
TitleLine(n) == <<"A", "b", " ", "C">> \o [i \in 1..(n - 4) |-> "d"]

\* a line of n characters that holds a keyword
KeywordLine(n) == [i \in 1..(n - 6) |-> "x"] \o S_timing

LinePool ==
  {CapsLine(HeaderMaxLen - 1), CapsLine(HeaderMaxLen),
   TitleLine(TitleMaxLen - 1), TitleLine(TitleMaxLen),
   KeywordLine(HeaderMaxLen - 1), KeywordLine(HeaderMaxLen),
   <<"1", ".", "1", " ", "O", "k">>,
   <<" ", "A", " ", "B", "\t">>,
   <<"A", "b", " ", "C", "d", ".">>,
   <<"n", "o", " ", "h", "i", "t">>,
   <<"F", "e", "a", "t", "u", "r", "e", "s", ".">>,
   <<>>}

\* lines joined by line terminators
RECURSIVE JoinLines(_)
JoinLines(ls) ==
  IF ls = <<>> THEN <<>>
  ELSE IF Len(ls) = 1 THEN ls[1]
  ELSE ls[1] \o <<NL>> \o JoinLines(Tail(ls))

PageTexts ==
  SeqsUpTo(LineAlphabet, MaxLineLen)
    \cup {JoinLines(ls) : ls \in SeqsUpTo(LinePool, MaxLines)}

InitDetect ==
  /\ pc = "detect"
  /\ text \in PageTexts
  /\ headers = <<>>
  /\ chunks = <<>>
  /\ structure = <<>>
  /\ NothingWritten
  /\ NoDocument
  /\ FirstCall

Detect ==
  /\ pc = "detect"
  /\ headers' = DetectHeaders(text)
  /\ pc' = "detected"
  /\ UNCHANGED host
  /\ UNCHANGED <<text, chunks, structure, writer, document>>

NextDetect == Detect

SpecDetect == InitDetect /\ [][NextDetect]_vars

(* ------------------------------------------------------------------ *)
(* process_pdf called on any document and any page limit                *)
(* ------------------------------------------------------------------ *)

MaxPages == 3

PdfPageTexts ==
  {<<"A", " ", "B", NL, "x">>,
   <<"C", " ", "D", NL, " ", "A", " ", "B", NL, "y", NL, "C", " ", "D">>,
   <<"x">>,
   <<>>}

PdfPages == {NoText} \cup {PageText(t) : t \in PdfPageTexts}

PageLimits == {None} \cup {Limit(n) : n \in (-2)..(MaxPages + 1)}

InitPdf ==
  /\ pc = "open"
  /\ text = <<>>
  /\ headers = <<>>
  /\ chunks = <<>>
  /\ structure = <<>>
  /\ NothingWritten
  /\ pdf \in SeqsUpTo(PdfPages, MaxPages)
  /\ max_pages \in PageLimits
  /\ pages_to_process = 0
  /\ page_num = 0
  /\ all_text = <<>>
  /\ all_headers = <<>>
  /\ unique_headers = <<>>
  /\ result = None
  /\ FirstCall

NextPdf ==
  \/ Open
  \/ Page
  \/ Unique
  \/ ExtractChunks
  \/ Build
  \/ WriteFile
  \/ WriteIndex
  \/ Return

SpecPdf == InitPdf /\ [][NextPdf]_vars

(* ------------------------------------------------------------------ *)
(* process_pdf_with_chunker called on any path, document and limit      *)
(* ------------------------------------------------------------------ *)

InitEntry ==
  /\ pc = "entry"
  /\ text = <<>>
  /\ headers = <<>>
  /\ chunks = <<>>
  /\ structure = <<>>
  /\ NothingWritten
  /\ exists \in BOOLEAN
  /\ pdf \in (IF exists THEN SeqsUpTo(PdfPages, MaxPages) ELSE {<<>>})
  /\ max_pages \in PageLimits
  /\ pages_to_process = 0
  /\ page_num = 0
  /\ all_text = <<>>
  /\ all_headers = <<>>
  /\ unique_headers = <<>>
  /\ result = None
  /\ raised = "none"
  /\ runs = 0
  /\ first_run = <<>>

NextEntry ==
  \/ Check
  \/ Open
  \/ Page
  \/ Unique
  \/ ExtractChunks
  \/ Build
  \/ WriteFile
  \/ WriteIndex
  \/ Return
  \/ Raise
  \/ Except

SpecEntry == InitEntry /\ [][NextEntry]_vars

(* ------------------------------------------------------------------ *)
(* process_pdf run again on the same document, directory and limit      *)
(* ------------------------------------------------------------------ *)

NextRerun ==
  \/ Open
  \/ Page
  \/ Unique
  \/ ExtractChunks
  \/ Build
  \/ WriteFile
  \/ WriteIndex
  \/ Return
  \/ Rerun

SpecRerun == InitPdf /\ [][NextRerun]_vars

(* ------------------------------------------------------------------ *)
(* Properties of the chunker (SpecChunk)                                *)
(* ------------------------------------------------------------------ *)

\* The text between the first and the last non-whitespace character.
P_Trim(s) ==
  LET ns == {i \in DOMAIN s : ~IsSpaceChar(s[i])}
  IN IF ns = {} THEN <<>>
     ELSE SubSeq(s, CHOOSE i \in ns : \A j \in ns : i <= j,
                    CHOOSE i \in ns : \A j \in ns : j <= i)

P_Lines == SplitLines(text)

\* the positions of the lines that are chunk boundaries
P_HdrIdx == {i \in DOMAIN P_Lines : P_Trim(P_Lines[i]) \in Range(headers)}

\* the text has one segment before the first boundary and one after each
P_NSeg == Cardinality(P_HdrIdx) + 1

\* the line position that ends segment k (0 before the first line)
P_Bound(k) ==
  IF k = 0 THEN 0
  ELSE IF k > Cardinality(P_HdrIdx) THEN Len(P_Lines) + 1
  ELSE CHOOSE i \in P_HdrIdx : Cardinality({j \in P_HdrIdx : j < i}) = k - 1

P_SegContent(k) ==
  Flatten([j \in 1..(P_Bound(k) - P_Bound(k - 1) - 1) |->
             P_Lines[P_Bound(k - 1) + j] \o <<NL>>])

P_SegHeader(k) ==
  IF k = 1 THEN S_Introduction ELSE P_Trim(P_Lines[P_Bound(k - 1)])

P_Blank(s) == \A i \in DOMAIN s : IsSpaceChar(s[i])

P_Kept(k) == ~P_Blank(P_SegContent(k))

P_ChunkKept(c) == ~P_Blank(c.content)

\* the chunks of the segments whose content is not whitespace-only
P_Expected ==
  SelectSeq([k \in 1..P_NSeg |-> Chunk(P_SegHeader(k), P_SegContent(k))],
            P_ChunkKept)

\* the body the result holds for segment k
P_Body(k) ==
  LET n == Cardinality({j \in 1..k : P_Kept(j)})
  IN IF n \in DOMAIN chunks THEN chunks[n].content ELSE <<>>

\* the header line that opens segment k >= 2, as it stands in the text
P_RawHeader(k) == P_Lines[P_Bound(k - 1)]

P_Terminator(k) == IF P_Bound(k - 1) < Len(P_Lines) THEN <<NL>> ELSE <<>>

\* the bodies of the returned chunks and the removed header lines, in
\* the order of the text
P_Rebuild ==
  IF headers = <<>> THEN Flatten([i \in DOMAIN chunks |-> chunks[i].content])
  ELSE Flatten([k \in 1..P_NSeg |->
         (IF k = 1 THEN <<>> ELSE P_RawHeader(k) \o P_Terminator(k))
         \o (IF P_Kept(k) THEN P_Body(k) ELSE <<>>)])

\* as P_Rebuild, every header line with a terminator and the
\* whitespace-only content of the dropped chunks put back
P_RebuildRestoring ==
  Flatten([k \in 1..P_NSeg |->
         (IF k = 1 THEN <<>> ELSE P_RawHeader(k) \o <<NL>>)
         \o (IF P_Kept(k) THEN P_Body(k) ELSE P_SegContent(k))])

P_Extracted == pc # "extract"

\* C1 (as stated): the bodies of the returned chunks, re-interleaved with
\* the removed header lines in original order, are the original text.
C1_ReconstructsExactly == P_Extracted => P_Rebuild = text

\* C1 (amended): with an empty header list the chunk's content is the text;
\* otherwise the returned bodies, the removed header lines (a terminator
\* after each) and the whitespace-only content of the dropped chunks
\* together are the text followed by one added line terminator.
C1_ReconstructsUpToDropped ==
  P_Extracted =>
    IF headers = <<>>
      THEN P_Rebuild = text
      ELSE /\ Len(chunks) = Cardinality({k \in 1..P_NSeg : P_Kept(k)})
           /\ P_RebuildRestoring = text \o <<NL>>

\* a chunk holding whitespace-only lines was dropped, a chunk was returned
\* and a header line was removed
C1_Witness ==
  /\ P_Extracted
  /\ headers # <<>>
  /\ chunks # <<>>
  /\ P_HdrIdx # {}
  /\ \E k \in 1..P_NSeg : ~P_Kept(k) /\ P_SegContent(k) # <<>>

\* C2: for a non-empty header list the result is, in text order, one chunk
\* per boundary-delimited segment whose content is not whitespace-only: its
\* header is the trimmed boundary line ("Introduction" before the first),
\* its content every line of the segment, raw, each with a terminator.
C2_ScanResult ==
  (P_Extracted /\ headers # <<>>) =>
     /\ chunks = P_Expected
     /\ \A i \in DOMAIN chunks : ~P_Blank(chunks[i].content)

\* a line with surrounding whitespace was a boundary, a chunk was dropped
\* and a chunk was returned
C2_Witness ==
  /\ P_Extracted
  /\ headers # <<>>
  /\ \E i \in P_HdrIdx : P_Lines[i] # P_Trim(P_Lines[i])
  /\ \E k \in 1..P_NSeg : ~P_Kept(k)
  /\ chunks # <<>>

\* C3: with an empty header list the chunker returns the one chunk
\* "Main Content" holding the text unchanged, and the tree builder puts it
\* in the category general.
C3_MainContent ==
  headers = <<>> =>
    /\ P_Extracted => chunks = <<[header |-> S_Main_Content, content |-> text]>>
    /\ pc = "write" =>
         /\ Len(structure) = 1
         /\ structure[1].category = "general"
         /\ Len(structure[1].files) = 1
         /\ structure[1].files[1].header = S_Main_Content

\* the degenerate case on a whitespace-only text, after the tree builder
C3_Witness ==
  /\ pc = "write"
  /\ headers = <<>>
  /\ text # <<>>
  /\ P_Blank(text)

(* ------------------------------------------------------------------ *)
(* Properties of the tree builder and the writer (SpecTree)             *)
(* ------------------------------------------------------------------ *)

P_Built == pc \in {"write", "done"}

\* every File record of the structure, category by category
P_Records == Flatten([k \in DOMAIN structure |-> structure[k].files])

\* the keyword groups in their priority order
P_Groups ==
  <<
    [name |-> "registers",
     kws |-> {<<"r", "e", "g", "i", "s", "t", "e", "r">>,
             <<"c", "o", "n", "f", "i", "g", "u", "r", "a", "t", "i", "o", "n">>,
             <<"c", "o", "n", "t", "r", "o", "l">>}],
    [name |-> "specifications",
     kws |-> {<<"t", "i", "m", "i", "n", "g">>,
             <<"e", "l", "e", "c", "t", "r", "i", "c", "a", "l">>,
             <<"s", "p", "e", "c", "i", "f", "i", "c", "a", "t", "i", "o", "n">>}],
    [name |-> "overview",
     kws |-> {<<"f", "e", "a", "t", "u", "r", "e">>,
             <<"o", "v", "e", "r", "v", "i", "e", "w">>,
             <<"d", "e", "s", "c", "r", "i", "p", "t", "i", "o", "n">>}],
    [name |-> "operation",
     kws |-> {<<"o", "p", "e", "r", "a", "t", "i", "o", "n">>,
             <<"m", "o", "d", "e">>,
             <<"f", "u", "n", "c", "t", "i", "o", "n">>}],
    [name |-> "mechanical",
     kws |-> {<<"p", "a", "c", "k", "a", "g", "e">>,
             <<"m", "e", "c", "h", "a", "n", "i", "c", "a", "l">>,
             <<"p", "i", "n">>}]
  >>

P_Categories ==
  {"registers", "specifications", "overview", "operation", "mechanical", "general"}

\* kw occurs in the lowercased header
P_Occurs(kw, h) ==
  \E off \in 0..(Len(h) - Len(kw)) :
    \A j \in DOMAIN kw : LowerChar(h[off + j]) = kw[j]

P_Hits(h) == {g \in DOMAIN P_Groups : \E kw \in P_Groups[g].kws : P_Occurs(kw, h)}

P_Category(h) ==
  IF P_Hits(h) = {} THEN "general"
  ELSE P_Groups[CHOOSE g \in P_Hits(h) : \A g2 \in P_Hits(h) : g <= g2].name

\* C5: every chunk is filed under exactly the category of the first keyword
\* group, in the order registers, specifications, overview, operation,
\* mechanical, that has a keyword in the lowercased header, and under
\* general when none has; the category is one of the six.
C5_Categorise ==
  P_Built =>
    /\ \A k \in DOMAIN structure :
         /\ structure[k].category \in P_Categories
         /\ \A j \in DOMAIN structure[k].files :
              structure[k].category = P_Category(structure[k].files[j].header)
    /\ \A i \in DOMAIN chunks :
         \E k \in DOMAIN structure :
           /\ structure[k].category = P_Category(chunks[i].header)
           /\ \E j \in DOMAIN structure[k].files :
                structure[k].files[j].header = chunks[i].header

\* a header holding both "register" and "mechanical" is filed under registers
C5_Witness ==
  /\ P_Built
  /\ Len(chunks) = 1
  /\ P_Occurs(<<"r", "e", "g", "i", "s", "t", "e", "r">>, chunks[1].header)
  /\ P_Occurs(<<"m", "e", "c", "h", "a", "n", "i", "c", "a", "l">>, chunks[1].header)
  /\ structure[1].category = "registers"

\* C6: every derived filename is non-empty, ends in ".md" and has at most
\* 50 characters before the extension.
C6_FilenameShape ==
  P_Built =>
    \A i \in DOMAIN P_Records :
      LET f == P_Records[i].filename
      IN /\ f # <<>>
         /\ Len(f) >= 3
         /\ SubSeq(f, Len(f) - 2, Len(f)) = <<".", "m", "d">>
         /\ Len(f) - 3 <= 50

\* a header of more than 50 letters got a filename of 50 characters and ".md"
C6_Witness ==
  /\ P_Built
  /\ Len(chunks) = 1
  /\ Len(chunks[1].header) > 50
  /\ \A i \in DOMAIN chunks[1].header : IsCasedChar(chunks[1].header[i])
  /\ Len(structure[1].files[1].filename) = 53

\* p has the shape digits(.digits)*, an optional dot, then whitespace only
P_PrefixShape(p) ==
  /\ p # <<>>
  /\ IsDigitChar(p[1])
  /\ \E n \in DOMAIN p :
       /\ \A i \in 1..n : IsDigitChar(p[i]) \/ p[i] = "."
       /\ \A i \in 1..(n - 1) : ~(p[i] = "." /\ p[i + 1] = ".")
       /\ \A i \in (n + 1)..Len(p) : IsSpaceChar(p[i])

\* the length of the longest leading part of h that has that shape
P_NumberLen(h) ==
  LET ks == {k \in 0..Len(h) : k = 0 \/ P_PrefixShape(SubSeq(h, 1, k))}
  IN CHOOSE k \in ks : \A k2 \in ks : k2 <= k

\* the numbered-section pattern of the header detector: the shape, ending
\* in whitespace, before an uppercase letter
P_NumberedSection(h) ==
  \E k \in 2..(Len(h) - 1) :
    /\ P_PrefixShape(SubSeq(h, 1, k))
    /\ IsSpaceChar(h[k])
    /\ IsUpperChar(h[k + 1])

P_IsNameChar(c) ==
  \/ c \in Range(UpperLetters) \cup Range(LowerLetters)
  \/ IsDigitChar(c)
  \/ IsSpaceChar(c)

\* the steps after the numbering is stripped: other characters removed,
\* each run of inner whitespace one underscore, lowercase, 50 characters
\* at most, "section" when nothing is left, then ".md"
P_Finish(s) ==
  LET t == P_Trim(SelectSeq(s, P_IsNameChar))
      First(i) == ~IsSpaceChar(t[i]) \/ ~IsSpaceChar(t[i - 1])
      at == SelectSeq([i \in DOMAIN t |-> i], First)
      u == [k \in DOMAIN at |->
              IF IsSpaceChar(t[at[k]]) THEN "_" ELSE LowerChar(t[at[k]])]
      v == [k \in 1..(IF Len(u) > 50 THEN 50 ELSE Len(u)) |-> u[k]]
  IN (IF v = <<>> THEN <<"s", "e", "c", "t", "i", "o", "n">> ELSE v)
       \o <<".", "m", "d">>

\* C7 (as stated): the numbering is stripped only from a header that matches
\* the numbered-section pattern of the header detector; any other header
\* keeps its leading digits.
C7_StripsOnlyNumberedSections ==
  P_Built =>
    \A i \in DOMAIN P_Records :
      LET h == P_Records[i].header
      IN P_Records[i].filename =
           P_Finish(IF P_NumberedSection(h) THEN From(h, P_NumberLen(h) + 1) ELSE h)

\* C7 (amended): the text stripped from the front is the longest leading
\* run of digit groups separated by single dots, with an optional dot and
\* the whitespace after it, whatever follows; the rest goes through the steps.
C7_StripsLeadingNumber ==
  P_Built =>
    \A i \in DOMAIN P_Records :
      LET h == P_Records[i].header
      IN P_Records[i].filename = P_Finish(From(h, P_NumberLen(h) + 1))

\* a header that starts with digits and does not match the numbered-section
\* pattern lost its digits
C7_Witness ==
  /\ P_Built
  /\ Len(chunks) = 1
  /\ chunks[1].header # <<>>
  /\ IsDigitChar(chunks[1].header[1])
  /\ ~P_NumberedSection(chunks[1].header)
  /\ structure[1].files[1].filename = <<"v", ".", "m", "d">>

\* the positions of s whose value is first seen there, in order
P_FirstSeen(s) ==
  LET New(i) == \A j \in 1..(i - 1) : s[j] # s[i]
  IN SelectSeq([i \in DOMAIN s |-> i], New)

\* C9: the categories stand in the order of their first chunk, the files
\* of a category are the records of its chunks in chunk order, each with
\* its chunk's header and trimmed content, and there are as many records
\* as chunks.
C9_Tree ==
  P_Built =>
    LET cats == [i \in DOMAIN chunks |-> Categorize(chunks[i].header)]
        first == P_FirstSeen(cats)
    IN /\ Len(P_Records) = Len(chunks)
       /\ [k \in DOMAIN structure |-> structure[k].category]
            = [k \in DOMAIN first |-> cats[first[k]]]
       /\ \A k \in DOMAIN structure :
            LET In(i) == cats[i] = structure[k].category
                mine == SelectSeq([i \in DOMAIN chunks |-> i], In)
            IN [j \in DOMAIN structure[k].files |->
                  <<structure[k].files[j].header, structure[k].files[j].content>>]
                 = [j \in DOMAIN mine |->
                      <<chunks[mine[j]].header, P_Trim(chunks[mine[j]].content)>>]

\* three chunks, the first and the third in one category, the second in
\* another, and a content that had whitespace to trim
C9_Witness ==
  /\ P_Built
  /\ Len(chunks) = 3
  /\ Len(structure) = 2
  /\ Len(structure[1].files) = 2
  /\ structure[1].files[2].header = chunks[3].header
  /\ chunks[3].content # structure[1].files[2].content

\* C10: after a run there are as many content files on storage as File
\* records, no path was written twice, and the file of every record holds
\* the header and content of that record.
C10_OneFilePerRecord ==
  pc = "done" =>
    /\ Cardinality(DOMAIN storage \ {IndexPath}) = Len(P_Records)
    /\ \A i, j \in DOMAIN created : i # j => created[i] # created[j]
    /\ \A k \in DOMAIN structure :
         \A j \in DOMAIN structure[k].files :
           LET f == structure[k].files[j]
               path == [dir |-> structure[k].category, name |-> f.filename]
           IN /\ path \in DOMAIN storage
              /\ storage[path] = <<"#", " ">> \o f.header \o <<NL, NL>> \o f.content

(* ------------------------------------------------------------------ *)
(* Properties of the header detector (SpecDetect)                       *)
(* ------------------------------------------------------------------ *)

P_HeaderKeywords ==
  {<<"i", "n", "t", "r", "o", "d", "u", "c", "t", "i", "o", "n">>,
   <<"o", "v", "e", "r", "v", "i", "e", "w">>,
   <<"s", "p", "e", "c", "i", "f", "i", "c", "a", "t", "i", "o", "n">>,
   <<"f", "e", "a", "t", "u", "r", "e", "s">>,
   <<"d", "e", "s", "c", "r", "i", "p", "t", "i", "o", "n">>,
   <<"o", "p", "e", "r", "a", "t", "i", "o", "n">>,
   <<"c", "o", "n", "f", "i", "g", "u", "r", "a", "t", "i", "o", "n">>,
   <<"r", "e", "g", "i", "s", "t", "e", "r", "s">>,
   <<"t", "i", "m", "i", "n", "g">>,
   <<"e", "l", "e", "c", "t", "r", "i", "c", "a", "l">>,
   <<"m", "e", "c", "h", "a", "n", "i", "c", "a", "l">>,
   <<"p", "a", "c", "k", "a", "g", "e">>}

\* two words or more: whitespace inside the trimmed line
P_ManyWords(l) == \E i \in DOMAIN l : IsSpaceChar(l[i])

P_AllCaps(l) ==
  /\ \E i \in DOMAIN l : l[i] \in Range(UpperLetters)
  /\ \A i \in DOMAIN l : l[i] \notin Range(LowerLetters)

\* every cased run starts with one uppercase letter and goes on in lowercase
P_TitleCase(l) ==
  /\ \E i \in DOMAIN l : IsCasedChar(l[i])
  /\ \A i \in DOMAIN l :
       /\ l[i] \in Range(UpperLetters) => (i = 1 \/ ~IsCasedChar(l[i - 1]))
       /\ l[i] \in Range(LowerLetters) => (i > 1 /\ IsCasedChar(l[i - 1]))

P_Rule1(l) == P_NumberedSection(l)

P_Rule2(l) == Len(l) < 80 /\ P_AllCaps(l) /\ P_ManyWords(l)

P_Rule3(l) ==
  Len(l) < 60 /\ P_TitleCase(l) /\ l[Len(l)] # "." /\ P_ManyWords(l)

P_Rule4(l) == Len(l) < 80 /\ \E kw \in P_HeaderKeywords : P_Occurs(kw, l)

P_AnyRule(l) == P_Rule1(l) \/ P_Rule2(l) \/ P_Rule3(l) \/ P_Rule4(l)

\* the trimmed lines of the page text
P_PageLines == [i \in DOMAIN SplitLines(text) |-> P_Trim(SplitLines(text)[i])]

P_IsHeaderLine(l) == l # <<>> /\ P_AnyRule(l)

\* C8: the detector returns, in line order and with repetitions, exactly
\* the trimmed non-empty lines that satisfy at least one of the four rules
\* (all uppercase: an uppercase letter and no lowercase one; title case:
\* every run of letters is one uppercase letter, then lowercase ones).
C8_DetectedLines ==
  pc = "detected" => headers = SelectSeq(P_PageLines, P_IsHeaderLine)

\* a line that satisfies the keyword rule only stands on the page twice
\* and is returned twice
C8_Witness ==
  /\ pc = "detected"
  /\ Len(headers) = 2
  /\ headers[1] = headers[2]
  /\ P_Rule4(headers[1])
  /\ ~P_Rule1(headers[1]) /\ ~P_Rule2(headers[1]) /\ ~P_Rule3(headers[1])

(* ------------------------------------------------------------------ *)
(* Properties of process_pdf (SpecPdf)                                  *)
(* ------------------------------------------------------------------ *)

P_Deduplicated == pc \in {"chunk", "structure", "write", "done", "returned"}

\* the headers detected on the pages the loop went through, page by page
P_Detected ==
  Flatten([i \in 1..page_num |->
             IF pdf[i].none THEN <<>> ELSE DetectHeaders(pdf[i].text)])

\* C4: the deduplicated header sequence holds every detected header text
\* once, holds nothing else, and is ordered by the first occurrence in the
\* header sequence accumulated page by page.
C4_UniqueHeaders ==
  P_Deduplicated =>
    /\ all_headers = P_Detected
    /\ \A i, j \in DOMAIN unique_headers :
         i # j => unique_headers[i] # unique_headers[j]
    /\ Range(unique_headers) = Range(all_headers)
    /\ unique_headers =
         [k \in DOMAIN P_FirstSeen(all_headers) |->
            all_headers[P_FirstSeen(all_headers)[k]]]

\* a header detected on two pages, and twice on one page, kept once
C4_Witness ==
  /\ P_Deduplicated
  /\ page_num >= 2
  /\ Len(unique_headers) = 2
  /\ Len(all_headers) >= 4
  /\ \E i \in 1..page_num : \E j \in 1..page_num :
       /\ i # j
       /\ ~pdf[i].none /\ ~pdf[j].none
       /\ Range(DetectHeaders(pdf[i].text)) \cap Range(DetectHeaders(pdf[j].text)) # {}

\* the page loop is over
P_LoopDone == pc \in {"chunk", "structure", "write", "done", "returned"}

P_Min(a, b) == IF a < b THEN a ELSE b

\* the number of pages the limit selects: all of them for no limit and -1
P_Selected ==
  IF max_pages.none \/ max_pages.n = -1
    THEN Len(pdf)
    ELSE P_Min(max_pages.n, Len(pdf))

\* what the pages 1..n give, in order: the text with its page markers
P_TextOfPages(n) ==
  Flatten([i \in 1..n |->
             IF pdf[i].none \/ pdf[i].text = <<>>
               THEN <<>>
               ELSE PageMarker(i) \o pdf[i].text])

\* what the pages 1..n give, in order: the detected headers
P_HeadersOfPages(n) ==
  Flatten([i \in 1..n |->
             IF pdf[i].none THEN <<>> ELSE DetectHeaders(pdf[i].text)])

\* C11: with no limit or a limit of -1 every page of the document is
\* processed; with any other limit exactly min(limit, total_pages) pages are
\* processed, and they are the first pages of the document in order.
C11_PageSelection ==
  P_LoopDone =>
    /\ page_num = P_Selected
    /\ all_text = P_TextOfPages(P_Selected)
    /\ all_headers = P_HeadersOfPages(P_Selected)

\* C15: the pages_processed of the returned summary lies between 0 and
\* total_pages and is the number of pages the page loop went through.
C15_PagesProcessed ==
  (pc = "returned" /\ result # None) =>
    /\ 0 <= result.pages_processed
    /\ result.pages_processed <= result.total_pages
    /\ result.pages_processed = page_num

(* ------------------------------------------------------------------ *)
(* Properties of process_pdf_with_chunker (SpecEntry)                   *)
(* ------------------------------------------------------------------ *)

\* nothing of the document was read and nothing was written
P_Untouched ==
  /\ NothingWritten
  /\ pages_to_process = 0
  /\ page_num = 0
  /\ all_text = <<>>
  /\ all_headers = <<>>
  /\ chunks = <<>>
  /\ structure = <<>>

\* every step of the run was done, up to the last file and the index
P_Completed ==
  /\ page_num = SliceLen(Len(pdf), pages_to_process)
  /\ all_text = P_TextOfPages(page_num)
  /\ unique_headers = Dedupe(all_headers, 1, <<>>, {})
  /\ chunks = ExtractContentBetweenHeaders(all_text, unique_headers)
  /\ structure = CreateDirectoryStructure(chunks)
  /\ wc > Len(structure)
  /\ IndexPath \in DOMAIN storage
  /\ storage[IndexPath] = IndexContent(structure)
  /\ \A i \in DOMAIN structure : \A j \in DOMAIN structure[i].files :
       FilePath(structure[i].category, structure[i].files[j].filename)
         \in DOMAIN storage
  /\ Len(created) = Len(P_Records) + 1

\* C12: no exception leaves process_pdf_with_chunker. For a path that does
\* not exist it returns the empty result, the document is not opened and
\* nothing is written; after an exception raised at any step of the run it
\* returns the empty result; it returns a summary only when the path exists,
\* nothing was raised and every step of the run was done.
C12_NothingPropagates ==
  /\ pc # "propagated"
  /\ pc = "returned" =>
       /\ result # None
       /\ ~exists => (result = EmptyResult /\ P_Untouched)
       /\ raised # "none" => result = EmptyResult
       /\ result # EmptyResult =>
            (exists /\ raised = "none" /\ P_Completed
               /\ result.content_chunks = Len(chunks)
               /\ result.structure = structure)

\* an exception raised by the writer after a file was written, and the
\* empty result returned
C12_Witness ==
  /\ pc = "returned"
  /\ raised = "write"
  /\ storage # <<>>
  /\ IndexPath \notin DOMAIN storage
  /\ result = EmptyResult

(* ------------------------------------------------------------------ *)
(* Properties of reruns (SpecRerun)                                     *)
(* ------------------------------------------------------------------ *)

\* C13: after any number of reruns with the same document, output directory
\* and page limit the storage is what the first run left: the same files,
\* each with the same content. During a rerun no file is added, and the
\* files and the index are replaced, not appended to.
C13_RerunOverwrites ==
  runs >= 1 =>
    /\ DOMAIN storage = DOMAIN first_run
    /\ pc \in {"done", "returned"} =>
         /\ storage = first_run
         /\ storage[IndexPath] = IndexContent(structure)

\* a second rerun has returned, with content files and the index on disk
C13_Witness ==
  /\ pc = "returned"
  /\ runs >= 2
  /\ Cardinality(DOMAIN storage) >= 3
  /\ Len(created) >= 4

(* ------------------------------------------------------------------ *)
(* Properties of chunking again (SpecRechunk)                           *)
(* ------------------------------------------------------------------ *)

\* a header text of a returned chunk that counts: not the sentinel
\* "Introduction", unless that was a header
P_OwnHeader(h) == h # S_Introduction \/ h \in Range(headers)

\* the header texts of the returned chunks, in order
P_OwnHeaders ==
  SelectSeq([i \in DOMAIN chunks |-> chunks[i].header], P_OwnHeader)

\* the boundary lines when the text is chunked with the chunks' own headers
P_OwnHdrIdx ==
  {i \in DOMAIN P_Lines : P_Trim(P_Lines[i]) \in Range(P_OwnHeaders)}

\* chunking the text again with the chunks' own headers changes nothing
P_SameAgain ==
  /\ P_OwnHdrIdx = P_HdrIdx
  /\ ExtractContentBetweenHeaders(text, P_OwnHeaders) = chunks

\* every header line of the text carries the header of a returned chunk
P_NoHeaderLost ==
  \A i \in P_HdrIdx : P_Trim(P_Lines[i]) \in Range(P_OwnHeaders)

\* C14 (as stated): for any text and header set, chunking the text again
\* with the header texts of the returned chunks ("Introduction" left out
\* unless it was a header) puts the boundaries on the same lines and gives
\* the same chunks.
C14_RechunkSame == P_Extracted => P_SameAgain

\* C14 (amended): chunking again with the chunks' own headers gives the same
\* boundaries and chunks exactly when the header set was not empty, some
\* returned chunk has a header that counts, and every header line of the
\* text carries the header of a returned chunk (no header lost all its
\* chunks to whitespace-only content).
C14_RechunkSameIfNoHeaderLost ==
  P_Extracted =>
    (P_SameAgain <=>
       (headers # <<>> /\ P_OwnHeaders # <<>> /\ P_NoHeaderLost))

\* two chunks under two headers, the same again with their own headers
C14_Witness ==
  /\ P_Extracted
  /\ Len(headers) >= 2
  /\ Len(chunks) >= 2
  /\ Cardinality(Range(P_OwnHeaders)) >= 2
  /\ P_NoHeaderLost
  /\ P_SameAgain

====
